---- MODULE Spec2Model ----
(***************************************************************************)
(* Steerable approximate query processing engine (src/main.py).            *)
(*                                                                         *)
(* One process-wide QueryState object is driven by two request handlers,   *)
(* start_query and refine_query.  Each handler runs fetch_next_chunk once  *)
(* and then answers with calculate_statistics.                             *)
(*                                                                         *)
(* Numbers.  The running totals are Python floats; the model keeps them as *)
(* integers (every value a record can carry is an integer here).  A        *)
(* quotient is kept exact as a pair <<numerator, denominator>>.  The       *)
(* confidence interval 1.96 * sqrt(variance) / sqrt(count) is kept as the  *)
(* pair <<v, n>> with v = count * sum_sq - sum^2 after the clamp at 0 and  *)
(* n = count, so that it stands for 1.96 * sqrt(v / n^3).                  *)
(***************************************************************************)
EXTENDS Integers, Sequences, FiniteSets, TLC

CHUNK_SIZE == 10000

\* Bounds of the model.
MaxPages == 2      \* non-empty pages the source serves to one query
MaxRows == 2       \* records in one page

\* Python's None for column_to_query / aggregate_function.
NoneVal == "<None>"

\* Column and aggregate strings a StartQueryRequest can carry (any str).
Columns == {"price", ""}
Aggregates == {"SUM", "COUNT", "AVG", "MEDIAN"}

\* One JSON record of a page, seen through float(record[col]):
\* parses = FALSE stands for KeyError, ValueError or TypeError.
RecordValues == {1, 3}
Records == [parses : {TRUE}, value : RecordValues] \cup {[parses |-> FALSE, value |-> 0]}

SeqsUpTo(S, n) == UNION {[1..k -> S] : k \in 1..n}

\* The non-empty pages the source can answer with.
Pages == SeqsUpTo(Records, MaxRows)

\* What requests.get / raise_for_status / json produce: a RequestException,
\* or the decoded list (possibly empty).
ErrorResponse == [kind |-> "error", data |-> <<>>]
EmptyResponse == [kind |-> "ok", data |-> <<>>]
PageResponses == {[kind |-> "ok", data |-> p] : p \in Pages}
Responses == {ErrorResponse, EmptyResponse} \cup PageResponses

\* Marks a call that issued no request.
NoFetch == [kind |-> "none", data |-> <<>>]

\* QueryState.__init__
NewQueryState ==
  [current_offset |-> 0,
   running_sum |-> 0,
   running_count |-> 0,
   running_sum_sq |-> 0,
   is_done |-> FALSE,
   column_to_query |-> NoneVal,
   aggregate_function |-> NoneVal]

\* reset() with "self.running_count = 0" left out.
reset_KeepsCount(qs) ==
  [qs EXCEPT !.current_offset = 0,
             !.running_sum = 0,
             !.running_sum_sq = 0,
             !.is_done = FALSE,
             !.column_to_query = NoneVal,
             !.aggregate_function = NoneVal]

\* reset() with "self.running_sum = 0.0" left out.
reset_KeepsSum(qs) ==
  [qs EXCEPT !.current_offset = 0,
             !.running_count = 0,
             !.running_sum_sq = 0,
             !.is_done = FALSE,
             !.column_to_query = NoneVal,
             !.aggregate_function = NoneVal]

\* QueryState.reset
reset(qs) ==
  [qs EXCEPT !.current_offset = 0,
             !.running_sum = 0,
             !.running_count = 0,
             !.running_sum_sq = 0,
             !.is_done = FALSE,
             !.column_to_query = NoneVal,
             !.aggregate_function = NoneVal]

\* The test written as column_to_query != "": None passes it.
Truthy_NoneIsTrue(v) == v # ""

\* Python truth value of column_to_query: None and "" are false.
Truthy(v) == v # NoneVal /\ v # ""

Max0(x) == IF x < 0 THEN 0 ELSE x

\* calculate_statistics with the SUM branch answering the mean.
calculate_statistics_SumAnswersMean(qs) ==
  IF qs.running_count = 0
  THEN [average |-> <<0, 1>>, confidence_interval |-> <<0, 1>>,
        percent_complete |-> 0, is_done |-> FALSE]
  ELSE IF qs.aggregate_function = "AVG"
  THEN [average |-> <<qs.running_sum, qs.running_count>>,
        confidence_interval |->
          <<Max0(qs.running_count * qs.running_sum_sq - qs.running_sum * qs.running_sum),
            qs.running_count>>,
        percent_complete |-> qs.running_count, is_done |-> qs.is_done]
  ELSE IF qs.aggregate_function = "SUM"
  THEN [average |-> <<qs.running_sum, qs.running_count>>, confidence_interval |-> <<0, 1>>,
        percent_complete |-> qs.running_count, is_done |-> qs.is_done]
  ELSE IF qs.aggregate_function = "COUNT"
  THEN [average |-> <<qs.running_count, 1>>, confidence_interval |-> <<0, 1>>,
        percent_complete |-> qs.running_count, is_done |-> qs.is_done]
  ELSE [average |-> <<0, 1>>, confidence_interval |-> <<0, 1>>,
        percent_complete |-> 0, is_done |-> qs.is_done]

\* calculate_statistics with the variance written sum_sq / count - avg, the
\* square of the mean forgotten.
calculate_statistics_MeanNotSquared(qs) ==
  IF qs.running_count = 0
  THEN [average |-> <<0, 1>>, confidence_interval |-> <<0, 1>>,
        percent_complete |-> 0, is_done |-> FALSE]
  ELSE IF qs.aggregate_function = "AVG"
  THEN [average |-> <<qs.running_sum, qs.running_count>>,
        confidence_interval |->
          <<Max0(qs.running_count * qs.running_sum_sq - qs.running_count * qs.running_sum),
            qs.running_count>>,
        percent_complete |-> qs.running_count, is_done |-> qs.is_done]
  ELSE IF qs.aggregate_function = "SUM"
  THEN [average |-> <<qs.running_sum, 1>>, confidence_interval |-> <<0, 1>>,
        percent_complete |-> qs.running_count, is_done |-> qs.is_done]
  ELSE IF qs.aggregate_function = "COUNT"
  THEN [average |-> <<qs.running_count, 1>>, confidence_interval |-> <<0, 1>>,
        percent_complete |-> qs.running_count, is_done |-> qs.is_done]
  ELSE [average |-> <<0, 1>>, confidence_interval |-> <<0, 1>>,
        percent_complete |-> 0, is_done |-> qs.is_done]

\* calculate_statistics, as the tuple (avg, ci, count, done) put into the
\* QueryResult fields average, confidence_interval, percent_complete, is_done.
calculate_statistics(qs) ==
  IF qs.running_count = 0
  THEN [average |-> <<0, 1>>, confidence_interval |-> <<0, 1>>,
        percent_complete |-> 0, is_done |-> FALSE]
  ELSE IF qs.aggregate_function = "AVG"
  THEN [average |-> <<qs.running_sum, qs.running_count>>,
        confidence_interval |->
          <<Max0(qs.running_count * qs.running_sum_sq - qs.running_sum * qs.running_sum),
            qs.running_count>>,
        percent_complete |-> qs.running_count, is_done |-> qs.is_done]
  ELSE IF qs.aggregate_function = "SUM"
  THEN [average |-> <<qs.running_sum, 1>>, confidence_interval |-> <<0, 1>>,
        percent_complete |-> qs.running_count, is_done |-> qs.is_done]
  ELSE IF qs.aggregate_function = "COUNT"
  THEN [average |-> <<qs.running_count, 1>>, confidence_interval |-> <<0, 1>>,
        percent_complete |-> qs.running_count, is_done |-> qs.is_done]
  ELSE [average |-> <<0, 1>>, confidence_interval |-> <<0, 1>>,
        percent_complete |-> 0, is_done |-> qs.is_done]

\* The loop body adding the square whatever the aggregate.
FoldRecord_AlwaysSquares(qs, record) ==
  IF ~record.parses
  THEN qs
  ELSE [qs EXCEPT !.running_sum = @ + record.value,
                  !.running_sum_sq = @ + record.value * record.value]

\* The body of "for record in data" for one record.
FoldRecord(qs, record) ==
  IF ~record.parses
  THEN qs
  ELSE IF qs.aggregate_function = "AVG"
  THEN [qs EXCEPT !.running_sum = @ + record.value,
                  !.running_sum_sq = @ + record.value * record.value]
  ELSE [qs EXCEPT !.running_sum = @ + record.value]

\* The loop with "break" for "continue": a record that fails ends the page.
RECURSIVE FoldRecords_BreaksOnFailure(_, _)
FoldRecords_BreaksOnFailure(qs, data) ==
  IF data = <<>> THEN qs
  ELSE IF ~Head(data).parses THEN qs
  ELSE FoldRecords_BreaksOnFailure(FoldRecord(qs, Head(data)), Tail(data))

RECURSIVE FoldRecords(_, _)
FoldRecords(qs, data) ==
  IF data = <<>> THEN qs
  ELSE FoldRecords(FoldRecord(qs, Head(data)), Tail(data))

\* The page branch taking a short page (fewer rows than a full one) as the
\* last page and setting is_done.
FoldPage_ShortPageIsLast(qs, data) ==
  LET counted == [qs EXCEPT !.running_count = @ + Len(data)]
      summed == IF qs.aggregate_function \in {"SUM", "AVG"}
                THEN FoldRecords(counted, data)
                ELSE counted
  IN [summed EXCEPT !.current_offset = @ + CHUNK_SIZE,
                    !.is_done = (Len(data) < CHUNK_SIZE)]

\* The page branch advancing the offset by the rows received, not by the
\* page size.
FoldPage_AdvancesByRows(qs, data) ==
  LET counted == [qs EXCEPT !.running_count = @ + Len(data)]
      summed == IF qs.aggregate_function \in {"SUM", "AVG"}
                THEN FoldRecords(counted, data)
                ELSE counted
  IN [summed EXCEPT !.current_offset = @ + Len(data)]

\* The page branch with "running_count = len(data)" for "+=".
FoldPage_AssignsCount(qs, data) ==
  LET counted == [qs EXCEPT !.running_count = Len(data)]
      summed == IF qs.aggregate_function \in {"SUM", "AVG"}
                THEN FoldRecords(counted, data)
                ELSE counted
  IN [summed EXCEPT !.current_offset = @ + CHUNK_SIZE]

\* The page branch leaving the offset alone when no record of the page parsed.
FoldPage_NoAdvanceWithoutUsable(qs, data) ==
  LET counted == [qs EXCEPT !.running_count = @ + Len(data)]
      summed == IF qs.aggregate_function \in {"SUM", "AVG"}
                THEN FoldRecords(counted, data)
                ELSE counted
  IN IF \E i \in 1..Len(data) : data[i].parses
     THEN [summed EXCEPT !.current_offset = @ + CHUNK_SIZE]
     ELSE summed

\* The non-empty-page branch of fetch_next_chunk.
FoldPage(qs, data) ==
  LET counted == [qs EXCEPT !.running_count = @ + Len(data)]
      summed == IF qs.aggregate_function \in {"SUM", "AVG"}
                THEN FoldRecords(counted, data)
                ELSE counted
  IN [summed EXCEPT !.current_offset = @ + CHUNK_SIZE]

\* The early return without its is_done test.
SkipsFetch_IgnoresDone(qs) == ~Truthy(qs.column_to_query)

\* The early return of fetch_next_chunk: no request is made.
SkipsFetch(qs) == qs.is_done \/ ~Truthy(qs.column_to_query)

\* fetch_next_chunk with the offset moved on before the request is known to
\* have succeeded: a failed request then skips a window.
fetch_next_chunk_AdvancesOnError(qs, resp) ==
  IF SkipsFetch(qs) THEN qs
  ELSE IF resp.kind = "error"
  THEN [qs EXCEPT !.is_done = TRUE, !.current_offset = @ + CHUNK_SIZE]
  ELSE IF resp.data = <<>> THEN [qs EXCEPT !.is_done = TRUE]
  ELSE FoldPage(qs, resp.data)

\* fetch_next_chunk setting a local is_done instead of query_state.is_done
\* in both places: the session is never marked.
fetch_next_chunk_NeverMarksDone(qs, resp) ==
  IF SkipsFetch(qs) THEN qs
  ELSE IF resp.kind = "error" THEN qs
  ELSE IF resp.data = <<>> THEN qs
  ELSE FoldPage(qs, resp.data)

\* fetch_next_chunk, given what the request answers when one is made.
fetch_next_chunk(qs, resp) ==
  IF SkipsFetch(qs) THEN qs
  ELSE IF resp.kind = "error" THEN [qs EXCEPT !.is_done = TRUE]
  ELSE IF resp.data = <<>> THEN [qs EXCEPT !.is_done = TRUE]
  ELSE FoldPage(qs, resp.data)

\* The source serves at most MaxPages non-empty pages to one query.
SourceCanAnswer(qs, resp) ==
  resp \in PageResponses => qs.current_offset < MaxPages * CHUNK_SIZE

VARIABLES
  query_state,   \* the module-level QueryState object
  result,        \* the QueryResult returned by the last call
  lastOp,        \* "none", "start" or "refine": the last call
  phase,         \* the session when the last call was entered: EMPTY, ACTIVE, EXHAUSTED
  lastFetch,     \* what its request got: "none" (no request), "error", "empty", "page"
  reqOffset,     \* the $offset of that request, -1 if none was made
  rowsReturned,  \* rows of the non-empty pages returned since the last start_query
  raised,        \* the last call ended in an exception instead of a QueryResult
  seen,          \* what the source has returned since the last start_query
  pc,            \* per worker thread: the statement it is about to run
  local,         \* per worker thread: the locals of its handler call
  epoch,         \* number of reset() calls so far
  folded,        \* the page windows added to running_count since the last reset()
  startRaced     \* since the last reset(), a start_query overlapped another call

seqVars == <<result, lastOp, phase, lastFetch, reqOffset, rowsReturned, raised, seen>>
thrVars == <<pc, local, epoch, folded, startRaced>>
vars == <<query_state, result, lastOp, phase, lastFetch, reqOffset, rowsReturned, raised, seen,
          pc, local, epoch, folded, startRaced>>

\* The threadpool workers that run the (synchronous) handlers.
Threads == {1, 2}

NoLocals ==
  [op |-> "none", column_name |-> NoneVal, aggregate_function |-> NoneVal,
   col |-> NoneVal, offset |-> 0, epoch |-> 0, data |-> NoFetch, answer |-> calculate_statistics(NewQueryState)]

\* The session's place in the life cycle EMPTY -> ACTIVE -> EXHAUSTED.
Phase(qs) ==
  IF qs.is_done THEN "EXHAUSTED"
  ELSE IF qs.column_to_query = NoneVal THEN "EMPTY"
  ELSE "ACTIVE"

\* What the try block of fetch_next_chunk raises for a response.
TryRaises(resp) == IF resp.kind = "error" THEN "RequestException" ELSE "None"

\* The exceptions the outer except clause of fetch_next_chunk handles.
Handled == {"RequestException"}

FetchKind(resp) ==
  IF resp.kind = "error" THEN "error"
  ELSE IF resp.data = <<>> THEN "empty"
  ELSE "page"

\* The values of the records of a page whose column value parses.
RECURSIVE ParsedValues(_)
ParsedValues(data) ==
  IF data = <<>> THEN <<>>
  ELSE IF Head(data).parses THEN <<Head(data).value>> \o ParsedValues(Tail(data))
  ELSE ParsedValues(Tail(data))

RECURSIVE SumSeq(_)
SumSeq(values) == IF values = <<>> THEN 0 ELSE Head(values) + SumSeq(Tail(values))

Squares(values) == [i \in 1..Len(values) |-> values[i] * values[i]]

\* Nothing returned yet.
NothingSeen == [pages |-> 0, parsed |-> 0, total |-> 0, squares |-> 0, values |-> {}]

\* seen after one more non-empty page: pages counts the pages, parsed the
\* records that parse, total and squares add up their values and the
\* squares of their values, values is the set of their values.
SeenWith(sn, data) ==
  LET vs == ParsedValues(data)
  IN [pages |-> sn.pages + 1,
      parsed |-> sn.parsed + Len(vs),
      total |-> sn.total + SumSeq(vs),
      squares |-> sn.squares + SumSeq(Squares(vs)),
      values |-> sn.values \cup {vs[i] : i \in 1..Len(vs)}]

Init ==
  /\ query_state = NewQueryState
  /\ seen = NothingSeen
  /\ result = calculate_statistics(NewQueryState)
  /\ lastOp = "none"
  /\ phase = "EMPTY"
  /\ lastFetch = "none"
  /\ reqOffset = -1
  /\ rowsReturned = 0
  /\ raised = FALSE
  /\ pc = [t \in Threads |-> "idle"]
  /\ local = [t \in Threads |-> NoLocals]
  /\ epoch = 0
  /\ folded = <<>>
  /\ startRaced = FALSE

\* fetch_next_chunk(); calculate_statistics(); return, shared by both handlers.
\* rows and sn are rowsReturned and seen as the call found them (zero for a
\* start_query).
FetchAndAnswer(qs, resp, rows, sn) ==
  /\ SourceCanAnswer(qs, resp)
  /\ seen' = IF ~SkipsFetch(qs) /\ FetchKind(resp) = "page"
             THEN SeenWith(sn, resp.data) ELSE sn
  /\ phase' = Phase(query_state)
  /\ lastFetch' = IF SkipsFetch(qs) THEN "none" ELSE FetchKind(resp)
  /\ reqOffset' = IF SkipsFetch(qs) THEN -1 ELSE qs.current_offset
  /\ rowsReturned' = IF ~SkipsFetch(qs) /\ FetchKind(resp) = "page"
                     THEN rows + Len(resp.data) ELSE rows
  /\ raised' = (~SkipsFetch(qs) /\ TryRaises(resp) \notin Handled \cup {"None"})
  /\ query_state' = fetch_next_chunk(qs, resp)
  /\ result' = calculate_statistics(query_state')

\* POST /start_query
start_query(column_name, aggregate_function, resp) ==
  /\ lastOp' = "start"
  /\ UNCHANGED thrVars
  /\ FetchAndAnswer([reset(query_state) EXCEPT
                       !.column_to_query = column_name,
                       !.aggregate_function = aggregate_function], resp, 0, NothingSeen)

\* POST /refine_query
refine_query(resp) ==
  /\ lastOp' = "refine"
  /\ UNCHANGED thrVars
  /\ FetchAndAnswer(query_state, resp, rowsReturned, seen)

Next ==
  \/ \E c \in Columns, a \in Aggregates, resp \in Responses : start_query(c, a, resp)
  \/ \E resp \in Responses : refine_query(resp)

Spec == Init /\ [][Next]_vars

(***************************************************************************)
(* A client that steers one query to its end: it calls refine_query again  *)
(* and again, and calls start_query only when no query is being fetched    *)
(* (none selected, or the last one exhausted).                             *)
(***************************************************************************)
\* A query is selected and not exhausted: the next refine_query fetches.
Fetching(qs) == ~SkipsFetch(qs)

SteeredStart(column_name, aggregate_function, resp) ==
  /\ ~Fetching(query_state)
  /\ start_query(column_name, aggregate_function, resp)

Refine == \E resp \in Responses : refine_query(resp)

NextSteered ==
  \/ \E c \in Columns, a \in Aggregates, resp \in Responses : SteeredStart(c, a, resp)
  \/ Refine

\* refine_query keeps being called.
SpecSteered == Init /\ [][NextSteered]_vars /\ WF_vars(Refine)

(***************************************************************************)
(* The handlers as the threadpool runs them: one statement at a time, any  *)
(* worker next.  No lock is taken anywhere in src/main.py.  Each step      *)
(* below is one statement (or one loop) of the source run without          *)
(* interruption; an augmented assignment is taken as one step.             *)
(***************************************************************************)
MaxStarts == 2     \* start_query calls in one run of the threaded model

\* Pages the source answers with in the threaded model.
RaceResponses ==
  {ErrorResponse, EmptyResponse} \cup
  {r \in PageResponses : Len(r.data) = 1 /\ r.data[1].value <= 1}

Goto(t, label) == pc' = [pc EXCEPT ![t] = label]

OthersBusy(t) == \E u \in Threads \ {t} : pc[u] # "idle"

\* start_query: query_state.reset()
T_start_reset(t, column_name, aggregate_function) ==
  /\ pc[t] = "idle"
  /\ epoch < MaxStarts
  /\ query_state' = reset(query_state)
  /\ epoch' = epoch + 1
  /\ folded' = <<>>
  /\ startRaced' = OthersBusy(t)
  /\ local' = [local EXCEPT ![t] = [NoLocals EXCEPT !.op = "start",
                                     !.column_name = column_name,
                                     !.aggregate_function = aggregate_function]]
  /\ Goto(t, "set_column")
  /\ UNCHANGED seqVars

\* start_query: query_state.column_to_query = request.column_name
T_start_set_column(t) ==
  /\ pc[t] = "set_column"
  /\ query_state' = [query_state EXCEPT !.column_to_query = local[t].column_name]
  /\ Goto(t, "set_aggregate")
  /\ UNCHANGED <<seqVars, local, epoch, folded, startRaced>>

\* start_query: query_state.aggregate_function = request.aggregate_function
T_start_set_aggregate(t) ==
  /\ pc[t] = "set_aggregate"
  /\ query_state' = [query_state EXCEPT !.aggregate_function = local[t].aggregate_function]
  /\ Goto(t, "guard")
  /\ UNCHANGED <<seqVars, local, epoch, folded, startRaced>>

\* refine_query is entered
T_refine_enter(t) ==
  /\ pc[t] = "idle"
  /\ local' = [local EXCEPT ![t] = [NoLocals EXCEPT !.op = "refine"]]
  /\ startRaced' = (startRaced \/ \E u \in Threads \ {t} :
                                   pc[u] # "idle" /\ local[u].op = "start")
  /\ Goto(t, "guard")
  /\ UNCHANGED <<seqVars, query_state, epoch, folded>>

\* fetch_next_chunk: the early return, else col = query_state.column_to_query
T_guard(t) ==
  /\ pc[t] = "guard"
  /\ IF SkipsFetch(query_state)
     THEN /\ Goto(t, "stats")
          /\ UNCHANGED local
     ELSE /\ local' = [local EXCEPT ![t].col = query_state.column_to_query]
          /\ Goto(t, "build")
  /\ UNCHANGED <<seqVars, query_state, epoch, folded, startRaced>>

\* fetch_next_chunk: soda_query is built from query_state.current_offset
T_build(t) ==
  /\ pc[t] = "build"
  /\ local' = [local EXCEPT ![t].offset = query_state.current_offset,
                            ![t].epoch = epoch]
  /\ Goto(t, "get")
  /\ UNCHANGED <<seqVars, query_state, epoch, folded, startRaced>>

\* fetch_next_chunk: requests.get, raise_for_status, json
T_get(t, resp) ==
  /\ pc[t] = "get"
  /\ resp \in PageResponses => local[t].offset < MaxPages * CHUNK_SIZE
  /\ local' = [local EXCEPT ![t].data = resp]
  /\ Goto(t, "handle")
  /\ UNCHANGED <<seqVars, query_state, epoch, folded, startRaced>>

\* fetch_next_chunk: the except clause and "if not data"
T_handle(t) ==
  /\ pc[t] = "handle"
  /\ IF local[t].data.kind = "error" \/ local[t].data.data = <<>>
     THEN /\ query_state' = [query_state EXCEPT !.is_done = TRUE]
          /\ Goto(t, "stats")
     ELSE /\ UNCHANGED query_state
          /\ Goto(t, "count")
  /\ UNCHANGED <<seqVars, local, epoch, folded, startRaced>>

\* fetch_next_chunk: query_state.running_count += len(data)
T_count(t) ==
  /\ pc[t] = "count"
  /\ query_state' = [query_state EXCEPT !.running_count = @ + Len(local[t].data.data)]
  /\ folded' = Append(folded, [offset |-> local[t].offset, epoch |-> local[t].epoch,
                             op |-> local[t].op])
  /\ Goto(t, "sum")
  /\ UNCHANGED <<seqVars, local, epoch, startRaced>>

\* fetch_next_chunk: the loop over the records
T_sum(t) ==
  /\ pc[t] = "sum"
  /\ query_state' = IF query_state.aggregate_function \in {"SUM", "AVG"}
                    THEN FoldRecords(query_state, local[t].data.data)
                    ELSE query_state
  /\ Goto(t, "advance")
  /\ UNCHANGED <<seqVars, local, epoch, folded, startRaced>>

\* fetch_next_chunk: query_state.current_offset += CHUNK_SIZE
T_advance(t) ==
  /\ pc[t] = "advance"
  /\ query_state' = [query_state EXCEPT !.current_offset = @ + CHUNK_SIZE]
  /\ Goto(t, "stats")
  /\ UNCHANGED <<seqVars, local, epoch, folded, startRaced>>

\* calculate_statistics() and the return of the handler
T_stats(t) ==
  /\ pc[t] = "stats"
  /\ local' = [local EXCEPT ![t] = [NoLocals EXCEPT
                    !.op = local[t].op,
                    !.answer = calculate_statistics(query_state)]]
  /\ Goto(t, "idle")
  /\ UNCHANGED <<seqVars, query_state, epoch, folded, startRaced>>

NextThreads ==
  \/ \E t \in Threads, c \in Columns, a \in Aggregates : T_start_reset(t, c, a)
  \/ \E t \in Threads : T_start_set_column(t)
  \/ \E t \in Threads : T_start_set_aggregate(t)
  \/ \E t \in Threads : T_refine_enter(t)
  \/ \E t \in Threads : T_guard(t)
  \/ \E t \in Threads : T_build(t)
  \/ \E t \in Threads, resp \in RaceResponses : T_get(t, resp)
  \/ \E t \in Threads : T_handle(t)
  \/ \E t \in Threads : T_count(t)
  \/ \E t \in Threads : T_sum(t)
  \/ \E t \in Threads : T_advance(t)
  \/ \E t \in Threads : T_stats(t)

SpecThreads == Init /\ [][NextThreads]_vars

AllIdle == \A t \in Threads : pc[t] = "idle"

(***************************************************************************)
(* Properties of the handlers run one call at a time (Spec) and of the     *)
(* handlers run by two workers at once (SpecThreads).                      *)
(***************************************************************************)

\* The value (0.0, 0.0, 0, done) as a QueryResult.
ZeroResult(done) ==
  [average |-> <<0, 1>>, confidence_interval |-> <<0, 1>>,
   percent_complete |-> 0, is_done |-> done]

\* C1: when two refine_query calls overlap (and no start_query raced them),
\* once both have returned every page window was added at most once and
\* none was skipped: the windows added since the last reset are
\* 0, CHUNK_SIZE, 2 * CHUNK_SIZE, ... in this order, and current_offset has
\* advanced by CHUNK_SIZE for each of them.
C1_NoPageTwiceNorSkipped ==
  (AllIdle /\ ~startRaced) =>
     /\ \A i \in 1..Len(folded) : folded[i].offset = (i - 1) * CHUNK_SIZE
     /\ query_state.current_offset = CHUNK_SIZE * Len(folded)

\* C2: when a start_query races a refine_query in flight, once both have
\* returned the totals hold only pages requested for the query started
\* last, never a page requested for the abandoned one.
C2_OnlyNewQueryPages ==
  AllIdle => \A i \in 1..Len(folded) :
                folded[i].op = "refine" => folded[i].epoch = epoch

\* C3: for every session with running_count = 0, whatever its aggregate and
\* its is_done flag, calculate_statistics returns estimate 0, confidence 0,
\* records processed 0 and done equal to the session's is_done.
C3_ZeroCountResult ==
  query_state.running_count = 0 =>
     calculate_statistics(query_state) = ZeroResult(query_state.is_done)

\* C4: a start_query followed by refine_query calls until the source returns
\* an empty page ends with a result whose is_done is true and a
\* running_count equal to the rows of all the non-empty pages returned.
C4_ExhaustedResult ==
  lastFetch = "empty" =>
     /\ result.is_done = TRUE
     /\ query_state.running_count = rowsReturned
     /\ result.percent_complete = rowsReturned

\* The session right after "reset(); set column; set aggregate".
FreshSession(column_name, aggregate_function) ==
  [NewQueryState EXCEPT !.column_to_query = column_name,
                        !.aggregate_function = aggregate_function]

\* query_state as it was when the call that leads to the primed state
\* entered fetch_next_chunk.
BeforeFetch ==
  IF lastOp' = "start"
  THEN FreshSession(query_state'.column_to_query, query_state'.aggregate_function)
  ELSE query_state

\* C5: when the request of a call fails, the call sets is_done, leaves
\* current_offset, running_count, running_sum and running_sum_sq as they
\* were before the request, raises nothing, and returns the result derived
\* from what was accumulated before the failure.
C5_FailedFetch ==
  [][lastFetch' = "error" =>
       /\ query_state'.is_done
       /\ query_state' = [BeforeFetch EXCEPT !.is_done = TRUE]
       /\ ~raised'
       /\ result' = calculate_statistics([BeforeFetch EXCEPT !.is_done = TRUE])]_vars

\* A refine_query whose request failed after rows had been accumulated.
C5_Witness ==
  /\ lastOp = "refine"
  /\ lastFetch = "error"
  /\ query_state.running_count > 0
  /\ query_state.is_done

\* C6: refine_query on a session whose is_done is set makes no request,
\* leaves every field of the session unchanged and returns the same result
\* as the call before it, however often it is repeated.
C6_RefineWhenDone ==
  [][(query_state.is_done /\ lastOp' = "refine") =>
       /\ lastFetch' = "none"
       /\ reqOffset' = -1
       /\ query_state' = query_state
       /\ result' = result]_vars

\* A refine_query entered on an exhausted session that holds rows, after an
\* earlier refine_query had exhausted it.
C6_Witness ==
  /\ lastOp = "refine"
  /\ phase = "EXHAUSTED"
  /\ lastFetch = "none"
  /\ query_state.is_done
  /\ query_state.running_count > 0

\* C7: is_done goes from false to true only in a call whose request got an
\* empty page or failed (a non-empty page never sets it), and from true to
\* false only in a start_query; no refine_query clears it.
C7_DoneMonotonic ==
  [][/\ (~query_state.is_done /\ query_state'.is_done) => lastFetch' \in {"empty", "error"}
     /\ lastFetch' = "page" => ~query_state'.is_done
     /\ (query_state.is_done /\ ~query_state'.is_done) => lastOp' = "start"
     /\ (query_state.is_done /\ lastOp' = "refine") => query_state'.is_done]_vars

\* A start_query entered on an exhausted session that cleared is_done by
\* folding a page.
C7_Witness ==
  /\ lastOp = "start"
  /\ phase = "EXHAUSTED"
  /\ lastFetch = "page"
  /\ ~query_state.is_done

\* C8: start_query from any session (empty, active or exhausted) leaves what
\* one refine_query leaves on the zero session with column and aggregate
\* set: session and result depend only on the inputs and on the answer to
\* the request at offset 0, never on the session discarded.
C8_StartIsResetThenRefine ==
  [][lastOp' = "start" =>
       LET fresh == FreshSession(query_state'.column_to_query,
                                 query_state'.aggregate_function)
       IN \E resp \in Responses :
            /\ query_state' = fetch_next_chunk(fresh, resp)
            /\ result' = calculate_statistics(fetch_next_chunk(fresh, resp))
            /\ lastFetch' = (IF SkipsFetch(fresh) THEN "none" ELSE FetchKind(resp))
            /\ reqOffset' = (IF SkipsFetch(fresh) THEN -1 ELSE 0)
            /\ rowsReturned' = (IF lastFetch' = "page" THEN Len(resp.data) ELSE 0)]_vars

\* A start_query entered on an exhausted session, whose request got a page.
C8_Witness ==
  /\ lastOp = "start"
  /\ phase = "EXHAUSTED"
  /\ lastFetch = "page"
  /\ query_state.running_count = rowsReturned
  /\ query_state.current_offset = CHUNK_SIZE

\* C9: every start_query, for every column and aggregate string the request
\* schema admits, makes exactly one request, at offset 0, before it returns.
C9_StartFetchesOnce ==
  lastOp = "start" => (lastFetch # "none" /\ reqOffset = 0)

\* C10: refine_query before any start_query makes no request, leaves the
\* session in its zero state with is_done false and returns the zero
\* result, however often it is called.
C10_RefineBeforeStart ==
  query_state.column_to_query = NoneVal =>
     /\ lastOp # "start"
     /\ lastFetch = "none"
     /\ reqOffset = -1
     /\ query_state = NewQueryState
     /\ result = ZeroResult(FALSE)

\* A refine_query made before any start_query.
C10_Witness ==
  /\ lastOp = "refine"
  /\ query_state.column_to_query = NoneVal

\* rowsReturned as it was when the call that leads to the primed state
\* entered fetch_next_chunk.
RowsBeforeFetch == IF lastOp' = "start" THEN 0 ELSE rowsReturned

\* seen as it was then.
SeenBeforeFetch == IF lastOp' = "start" THEN NothingSeen ELSE seen

\* C11: in every call, current_offset changes in fetch_next_chunk only when
\* the request got a non-empty page, and then it grows by exactly
\* CHUNK_SIZE whatever the number of rows; on an empty page, a failed
\* request or a call without request it stays.
C11_OffsetAdvance ==
  [][/\ lastFetch' = "page" =>
          query_state'.current_offset = BeforeFetch.current_offset + CHUNK_SIZE
     /\ lastFetch' # "page" =>
          query_state'.current_offset = BeforeFetch.current_offset]_vars

\* A refine_query that got a page of fewer rows than pages so far times
\* MaxRows, after an earlier page.
C11_Witness ==
  /\ lastOp = "refine"
  /\ lastFetch = "page"
  /\ query_state.current_offset = 2 * CHUNK_SIZE
  /\ rowsReturned < 2 * MaxRows

\* C12: over successive refine_query calls (no start_query between them)
\* running_count never decreases and current_offset never decreases.
C12_RefineMonotonic ==
  [][lastOp' = "refine" =>
       /\ query_state'.running_count >= query_state.running_count
       /\ query_state'.current_offset >= query_state.current_offset]_vars

\* A refine_query that added a page of one row to a session holding more.
C12_Witness ==
  /\ lastOp = "refine"
  /\ lastFetch = "page"
  /\ seen.pages = 2
  /\ query_state.running_count = MaxRows + 1

\* C13: in every state between calls, running_count = 0 implies
\* running_sum = 0 and running_sum_sq = 0.
C13_ZeroCountZeroSums ==
  query_state.running_count = 0 =>
     (query_state.running_sum = 0 /\ query_state.running_sum_sq = 0)

\* A start_query on an exhausted session that got no page: the totals of
\* the discarded query are gone.
C13_Witness ==
  /\ lastOp = "start"
  /\ phase = "EXHAUSTED"
  /\ lastFetch \in {"empty", "error"}
  /\ query_state.aggregate_function = "AVG"
  /\ query_state.running_count = 0

\* C14: running_sum_sq is touched only for AVG and running_sum only for SUM
\* or AVG: in every state between calls, aggregate SUM or COUNT implies
\* running_sum_sq = 0 and aggregate COUNT implies running_sum = 0.
C14_SumsOnlyWhenNeeded ==
  /\ query_state.aggregate_function \in {"SUM", "COUNT"} => query_state.running_sum_sq = 0
  /\ query_state.aggregate_function = "COUNT" => query_state.running_sum = 0

\* A SUM session that has added parsed values, and so could have added
\* their squares.
C14_Witness ==
  /\ query_state.aggregate_function = "SUM"
  /\ query_state.running_sum > 0
  /\ seen.squares > 0

\* C15: on a non-empty page of n records running_count grows by n whatever
\* the records hold; for SUM and AVG running_sum grows by the total of the
\* values that parse and, for AVG, running_sum_sq by the total of their
\* squares; a record that fails to parse adds to the count only and does
\* not end the page.
C15_PageFold ==
  [][lastFetch' = "page" =>
       LET n == rowsReturned' - RowsBeforeFetch
           total == seen'.total - SeenBeforeFetch.total
           squares == seen'.squares - SeenBeforeFetch.squares
           agg == query_state'.aggregate_function
       IN /\ n > 0
          /\ query_state'.running_count = BeforeFetch.running_count + n
          /\ agg \in {"SUM", "AVG"} =>
               query_state'.running_sum = BeforeFetch.running_sum + total
          /\ agg = "AVG" =>
               query_state'.running_sum_sq = BeforeFetch.running_sum_sq + squares]_vars

\* An AVG query whose pages held a record that failed to parse and records
\* that parsed: all are counted, the parsed ones are summed.
C15_Witness ==
  /\ lastFetch = "page"
  /\ query_state.aggregate_function = "AVG"
  /\ seen.parsed > 0
  /\ seen.parsed < rowsReturned
  /\ query_state.running_count = rowsReturned
  /\ query_state.running_sum = seen.total
  /\ query_state.running_sum_sq = seen.squares

\* C16: for every session with running_count > 0 the result is
\* (running_sum, 0, running_count, is_done) for SUM and
\* (running_count, 0, running_count, is_done) for COUNT.
C16_SumAndCountResults ==
  query_state.running_count > 0 =>
     /\ query_state.aggregate_function = "SUM" =>
          result = [average |-> <<query_state.running_sum, 1>>,
                    confidence_interval |-> <<0, 1>>,
                    percent_complete |-> query_state.running_count,
                    is_done |-> query_state.is_done]
     /\ query_state.aggregate_function = "COUNT" =>
          result = [average |-> <<query_state.running_count, 1>>,
                    confidence_interval |-> <<0, 1>>,
                    percent_complete |-> query_state.running_count,
                    is_done |-> query_state.is_done]

\* An exhausted SUM session whose sum differs from its count.
C16_Witness ==
  /\ query_state.aggregate_function = "SUM"
  /\ query_state.is_done
  /\ query_state.running_count > 1
  /\ query_state.running_sum > query_state.running_count

Recognized == {"SUM", "COUNT", "AVG"}

\* C17: for a session whose aggregate is none of SUM, COUNT, AVG the calls
\* never fail, the fetch still adds to running_count and current_offset on
\* non-empty pages, and the result is (0, 0, 0, is_done of the session).
C17_UnrecognizedAggregate ==
  query_state.aggregate_function \notin Recognized =>
     /\ ~raised
     /\ query_state.running_count = rowsReturned
     /\ query_state.current_offset = CHUNK_SIZE * seen.pages
     /\ result = ZeroResult(query_state.is_done)

\* The folded values are all the same: every record that parsed carried
\* one value.
AllValuesIdentical == Cardinality(seen.values) <= 1

C19_EventuallyDone ==
  /\ Fetching(query_state) ~> query_state.is_done
  /\ [][query_state.is_done =>
          /\ lastOp' = "refine" => (query_state'.is_done /\ lastFetch' = "none")
          /\ ~query_state'.is_done => lastOp' = "start"]_vars

\* A query that went through every page the source holds and then got the
\* empty page.
C19_Witness ==
  /\ lastOp = "refine"
  /\ lastFetch = "empty"
  /\ seen.pages = MaxPages
  /\ query_state.is_done

\* C20: in every state between calls current_offset is CHUNK_SIZE times the
\* number of non-empty pages folded since the last start_query: it is a
\* multiple of CHUNK_SIZE, it is above 0 exactly when running_count is, and
\* the offsets requested within a query are 0, CHUNK_SIZE, 2 * CHUNK_SIZE,
\* ..., each once.
C20_OffsetCountsPages ==
  /\ query_state.current_offset = CHUNK_SIZE * seen.pages
  /\ query_state.current_offset % CHUNK_SIZE = 0
  /\ query_state.current_offset > 0 <=> query_state.running_count > 0
  /\ lastFetch = "page" => reqOffset = CHUNK_SIZE * (seen.pages - 1)
  /\ lastFetch \in {"empty", "error"} =>
       (reqOffset = CHUNK_SIZE * seen.pages /\ query_state.is_done)

\* The request after two folded pages, answered by the empty page.
C20_Witness ==
  /\ lastFetch = "empty"
  /\ seen.pages = 2
  /\ reqOffset = 2 * CHUNK_SIZE
  /\ query_state.current_offset = 2 * CHUNK_SIZE
  /\ seen.parsed = 0
====
